---- MODULE Spec2Model ----
(***************************************************************************)
(* A model of DataAgent (src/college/multiagentapp/agents/data_agent.py):  *)
(* the tabular preprocessing pipeline read -> profile -> impute -> encode  *)
(* -> scale.                                                               *)
(*                                                                         *)
(* The library calls are modelled by what pandas 2.x does:                 *)
(*   - DataFrames are objects on a heap; data and preprocessed_data hold   *)
(*     references, so that aliasing and in-place mutation are visible.     *)
(*   - Numbers are exact rationals n/d (floating-point rounding is not     *)
(*     modelled); the results of standard scaling, which involve a square  *)
(*     root, are kept as signed square roots of rationals.                 *)
(*   - NaN / None is one missing marker.                                   *)
(***************************************************************************)
EXTENDS Integers, Sequences, FiniteSets, TLC

VARIABLES
    heap,               \* object store: reference -> DataFrame (or Free)
    data,               \* self.data: a reference, or None
    preprocessed_data,  \* self.preprocessed_data: a reference, or None
    data_info,          \* self.data_info: a dict (function from keys)
    disk,               \* the table stored in the files the caller can name
    source,             \* history: the path of the last successful read_data
    config,             \* the config the caller passes to preprocess_data
    ret,                \* what the last call returned: "None", "True", "False"
    raised,             \* the exception the last call let out to its caller
    log,                \* the message of the last call's logger.error, or "none"
    run                 \* history of the last call (operation, argument, stages)

vars ==
    <<heap, data, preprocessed_data, data_info, disk, source, config, ret, raised, log, run>>

(***************************************************************************)
(* Bounds of the model.                                                    *)
(***************************************************************************)
MaxRows == 3        \* the table on disk has at most this many rows
MaxCells == 4       \* and at most this many cells (rows x columns)

(***************************************************************************)
(* Cells.  Every cell is a record [k, n, d]:                               *)
(*   "num"  the rational n/d in lowest terms, d > 0                        *)
(*   "nan"  the missing marker (NaN in a float column, None/NaN in an      *)
(*          object column)                                                 *)
(*   "str"  the text Text[n]; Text is listed in ascending (sorted) order,  *)
(*          so n is the rank of the text in Python's string order          *)
(*   "root" the real number sign(n) * sqrt(|n| / d)                        *)
(*   "bool" False (n = 0) or True (n = 1)                                  *)
(***************************************************************************)
Text == <<"blue", "red">>

Abs(a) == IF a < 0 THEN -a ELSE a

RECURSIVE GCD(_, _)
GCD(a, b) == IF b = 0 THEN a ELSE GCD(b, a % b)

NaN == [k |-> "nan", n |-> 0, d |-> 1]
Num(n, d) ==
    LET g == GCD(Abs(n), Abs(d))
        s == IF d < 0 THEN -1 ELSE 1
    IN  [k |-> "num", n |-> (s * n) \div g, d |-> (s * d) \div g]
Whole(i) == [k |-> "num", n |-> i, d |-> 1]
Str(i) == [k |-> "str", n |-> i, d |-> 1]
Bool(b) == [k |-> "bool", n |-> IF b THEN 1 ELSE 0, d |-> 1]
Root(n, d) ==
    LET g == GCD(Abs(n), Abs(d))
    IN  [k |-> "root", n |-> n \div g, d |-> d \div g]

IsNull(c) == c.k = "nan"

\* exact arithmetic on "num" cells
Add(a, b) == Num(a.n * b.d + b.n * a.d, a.d * b.d)
Sub(a, b) == Num(a.n * b.d - b.n * a.d, a.d * b.d)
Mul(a, b) == Num(a.n * b.n, a.d * b.d)
Less(a, b) == a.n * b.d < b.n * a.d
\* a / b as floating-point division does it: 0/0 is NaN, nothing raises
Div(a, b) ==
    IF b.n = 0 THEN NaN     \* only reached with a.n = 0 (see _scale_numerical)
    ELSE Num(a.n * b.d, a.d * b.n)

(***************************************************************************)
(* Series (a column's cells) and the pandas reductions the code uses.      *)
(* All of them skip missing cells (skipna=True, dropna=True).              *)
(***************************************************************************)
SelectSeqNotNull(cells) == SelectSeq(cells, LAMBDA c : ~IsNull(c))

isnull_any(cells) == \E i \in 1..Len(cells) : IsNull(cells[i])

\* the number of cells that hold a value (Series.count())
notnull_count(cells) == Cardinality({i \in 1..Len(cells) : ~IsNull(cells[i])})

\* Series.isnull().sum()
isnull_sum(cells) == Cardinality({i \in 1..Len(cells) : IsNull(cells[i])})

RECURSIVE SumSeq(_)
SumSeq(s) == IF s = <<>> THEN Whole(0) ELSE Add(Head(s), SumSeq(Tail(s)))

\* a mean that does not skip missing cells (numpy's mean, skipna=False)
mean_no_skipna(cells) ==
    IF isnull_any(cells) \/ cells = <<>> THEN NaN
    ELSE Div(SumSeq(cells), Whole(Len(cells)))

\* Series.mean(): NaN when there is no value to average
mean(cells) ==
    LET v == SelectSeqNotNull(cells)
    IN  IF v = <<>> THEN NaN ELSE Div(SumSeq(v), Whole(Len(v)))

\* the cells of s in ascending order (insertion sort).  Less orders "num"
\* cells by value and "str" cells by their rank in Text.
RECURSIVE Insert(_, _)
Insert(x, s) ==
    IF s = <<>> THEN <<x>>
    ELSE IF Less(Head(s), x) THEN <<Head(s)>> \o Insert(x, Tail(s))
    ELSE <<x>> \o s
RECURSIVE Sorted(_)
Sorted(s) == IF s = <<>> THEN <<>> ELSE Insert(Head(s), Sorted(Tail(s)))

\* Series.median(): middle value, or the mean of the two middle values
median(cells) ==
    LET v == Sorted(SelectSeqNotNull(cells))
        m == Len(v)
    IN  IF m = 0 THEN NaN
        ELSE IF m % 2 = 1 THEN v[(m + 1) \div 2]
        ELSE Div(Add(v[m \div 2], v[m \div 2 + 1]), Whole(2))

\* Series.min() / Series.max()
min(cells) ==
    LET v == Sorted(SelectSeqNotNull(cells))
    IN  IF v = <<>> THEN NaN ELSE v[1]
max(cells) ==
    LET v == Sorted(SelectSeqNotNull(cells))
    IN  IF v = <<>> THEN NaN ELSE v[Len(v)]

\* Series.std(): sample standard deviation (ddof = 1), returned as its
\* square, the variance; NaN when fewer than two values
var(cells) ==
    LET v == SelectSeqNotNull(cells)
        m == mean(cells)
        sq == [i \in 1..Len(v) |-> Mul(Sub(v[i], m), Sub(v[i], m))]
    IN  IF Len(v) < 2 THEN NaN ELSE Div(SumSeq(sq), Whole(Len(v) - 1))

\* the distinct cells of s, in the order they first appear
RECURSIVE Unique(_)
Unique(s) ==
    IF s = <<>> THEN <<>>
    ELSE <<Head(s)>> \o Unique(SelectSeq(Tail(s), LAMBDA c : c # Head(s)))

\* the distinct non-missing values of an object column, sorted: what
\* pd.Categorical, Series.mode and get_dummies all work from
categories(cells) == Sorted(Unique(SelectSeqNotNull(cells)))

Count(cells, v) == Cardinality({i \in 1..Len(cells) : cells[i] = v})

\* the most frequent values in the order they first appear in the column
mode_first_seen(cells) ==
    LET seen == Unique(SelectSeqNotNull(cells))
    IN  SelectSeq(seen, LAMBDA v : \A i \in 1..Len(seen) :
                                      Count(cells, seen[i]) <= Count(cells, v))

\* Series.mode(): the most frequent values, sorted ascending; empty when
\* every cell is missing
mode(cells) ==
    LET cats == categories(cells)
    IN  SelectSeq(cats, LAMBDA v : \A i \in 1..Len(cats) :
                                      Count(cells, cats[i]) <= Count(cells, v))

\* a fill that stops after the first missing cell (fillna(value, limit=1))
fillna_limit_1(cells, value) ==
    [i \in 1..Len(cells) |->
        IF IsNull(cells[i]) /\ \A j \in 1..(i - 1) : ~IsNull(cells[j])
        THEN value ELSE cells[i]]

\* Series.fillna(value): missing cells take value; fillna(NaN) changes nothing
fillna(cells, value) ==
    [i \in 1..Len(cells) |-> IF IsNull(cells[i]) THEN value ELSE cells[i]]

IndexOf(s, v) == CHOOSE i \in 1..Len(s) : s[i] = v

\* codes numbered in the order the values first appear (pd.factorize)
codes_first_seen(cells) ==
    LET seen == Unique(SelectSeqNotNull(cells))
    IN  [i \in 1..Len(cells) |->
            IF IsNull(cells[i]) THEN Whole(-1) ELSE Whole(IndexOf(seen, cells[i]) - 1)]

\* pd.Categorical(series).codes: position among the sorted categories,
\* counted from 0; -1 for a missing cell
codes(cells) ==
    LET cats == categories(cells)
    IN  [i \in 1..Len(cells) |->
            IF IsNull(cells[i]) THEN Whole(-1) ELSE Whole(IndexOf(cats, cells[i]) - 1)]

(***************************************************************************)
(* Python values: None, dicts and DataFrames.                              *)
(***************************************************************************)
\* a Python object that is either None or a dict d (a function from keys)
PyNone == [isNone |-> TRUE, d |-> <<>>]
PyDict(f) == [isNone |-> FALSE, d |-> f]
NoneStr == "<None>"

\* dict.get(key, default); calling it on None raises AttributeError, which
\* the callers below test for with obj.isNone before they use the result
dict_get(obj, key, default) ==
    IF key \in DOMAIN obj.d THEN obj.d[key] ELSE default

\* a DataFrame is a sequence of columns [name, dtype, cells]
Column(name, dtype, cells) == [name |-> name, dtype |-> dtype, cells |-> cells]

columns(df) == [i \in 1..Len(df) |-> df[i].name]

ColIndex(df, name) == CHOOSE i \in 1..Len(df) : df[i].name = name

\* df[name]
getitem(df, name) == df[ColIndex(df, name)].cells

\* df[name] = cells (the column exists already): assignment in place
setitem(df, name, dtype, cells) ==
    [df EXCEPT ![ColIndex(df, name)] = Column(name, dtype, cells)]

\* len(df)
len(df) == IF df = <<>> THEN 0 ELSE Len(df[1].cells)

IsIn(x, s) == \E i \in 1..Len(s) : s[i] = x

(***************************************************************************)
(* Files.  A file's content is either Malformed or a sequence of columns   *)
(* [name, cells] of equal length whose cells are numerals, texts or empty. *)
(* pd.read_csv / pd.read_excel give a column of numerals and empties a     *)
(* numeric dtype (int64 without an empty cell, float64 with one, so an     *)
(* all-empty column is float64), a column holding a text the dtype object, *)
(* and a column of True / False without an empty cell the dtype bool.      *)
(***************************************************************************)
Malformed == <<[name |-> "<malformed>", cells |-> <<>>]>>

infer_dtype(cells) ==
    IF \E i \in 1..Len(cells) : cells[i].k = "str" THEN "object"
    ELSE IF cells # <<>> /\ \A i \in 1..Len(cells) : cells[i].k = "bool" THEN "bool"
    ELSE IF isnull_any(cells) THEN "float64"
    ELSE "int64"

\* the DataFrame the parser builds from a well-formed content
parse(content) ==
    [i \in 1..Len(content) |->
        Column(content[i].name, infer_dtype(content[i].cells), content[i].cells)]

\* str.endswith(ext): case-sensitive comparison of the last characters
endswith(path, ext) ==
    LET n == Len(path)
        m == Len(ext)
    IN  n >= m /\ SubSeq(path, n - m + 1, n) = ext

\* the result of pd.read_csv / pd.read_excel on a file's content: a DataFrame, or
\* an exception (a ParserError / ValueError of the library)
read_file(content) ==
    IF content = Malformed
    THEN [exc |-> "ParserError", df |-> <<>>]
    ELSE [exc |-> "none", df |-> parse(content)]

(***************************************************************************)
(* The object store.  Free marks an unused reference; None is the null     *)
(* reference.                                                              *)
(***************************************************************************)
Refs == {1, 2, 3}
None == 0
Free == <<[name |-> "<free>", dtype |-> "", cells |-> <<>>]>>

\* a new object holding df; `live` are the references still in use
new_object(h, live, df) ==
    LET r == CHOOSE x \in Refs \ live : \A y \in Refs \ live : x <= y
    IN  [heap |-> [h EXCEPT ![r] = df], ref |-> r]

\* no copy at all: the same object under a second name
copy_alias(h, live, r) == [heap |-> h, ref |-> r]

\* DataFrame.copy(): a new object with the same columns and cells
copy(h, live, r) == new_object(h, live, h[r])

\* After a call: objects no attribute refers to are dropped, and the
\* references are renumbered (raw table first) so that object identity is
\* kept up to renaming.
collect(h, d, p) ==
    LET nd == IF d = None THEN None ELSE 1
        np == IF p = None THEN None
              ELSE IF p = d THEN nd
              ELSE IF d = None THEN 1 ELSE 2
    IN  [heap |-> [r \in Refs |-> IF r = nd /\ d # None THEN h[d]
                                  ELSE IF r = np /\ p # None THEN h[p]
                                  ELSE Free],
         data |-> nd, preprocessed_data |-> np]

(***************************************************************************)
(* _analyze_data: the profile of the raw table.                            *)
(***************************************************************************)
\* df.select_dtypes(include=...).columns as a list
select_dtypes(df, include) ==
    LET keep == SelectSeq(df, LAMBDA c : c.dtype \in include)
    IN  [i \in 1..Len(keep) |-> keep[i].name]

\* the dtypes numpy counts as np.number (bool is not one of them)
np_number == {"int8", "int64", "float64"}

\* a profile that is built on the first load only and kept afterwards
_analyze_data_once(df) ==
    IF data_info # <<>> THEN data_info
    ELSE LET names == {df[i].name : i \in 1..Len(df)}
         IN  [num_rows |-> len(df),
              num_columns |-> Len(df),
              column_types |-> [c \in names |-> df[ColIndex(df, c)].dtype],
              missing_values |-> [c \in names |-> isnull_sum(getitem(df, c))],
              numeric_columns |-> select_dtypes(df, np_number),
              categorical_columns |-> select_dtypes(df, {"object"})]

_analyze_data(df) ==
    LET names == {df[i].name : i \in 1..Len(df)}
    IN  [num_rows |-> len(df),
         num_columns |-> Len(df),
         column_types |-> [c \in names |-> df[ColIndex(df, c)].dtype],
         missing_values |-> [c \in names |-> isnull_sum(getitem(df, c))],
         numeric_columns |-> select_dtypes(df, np_number),
         categorical_columns |-> select_dtypes(df, {"object"})]

(***************************************************************************)
(* The three stages.  Each takes the working DataFrame and returns         *)
(* [df, exc]: the working DataFrame as the stage left it and the exception *)
(* that ended it ("none" when it ran to its end).                          *)
(***************************************************************************)
\* lines 103-108: the loop over the numeric columns, from column i on
RECURSIVE fill_numeric(_, _, _, _)
fill_numeric(st, cols, i, section) ==
    IF i > Len(cols) \/ st.exc # "none" THEN st
    ELSE LET series == getitem(st.df, cols[i])
         IN  IF ~isnull_any(series) THEN fill_numeric(st, cols, i + 1, section)
             ELSE IF section.isNone THEN [st EXCEPT !.exc = "AttributeError"]
             ELSE IF dict_get(section, "numeric", NoneStr) = "mean"
             THEN fill_numeric(
                    [st EXCEPT !.df = setitem(st.df, cols[i], "float64",
                                              fillna(series, mean(series)))],
                    cols, i + 1, section)
             ELSE IF dict_get(section, "numeric", NoneStr) = "median"
             THEN fill_numeric(
                    [st EXCEPT !.df = setitem(st.df, cols[i], "float64",
                                              fillna(series, median(series)))],
                    cols, i + 1, section)
             ELSE fill_numeric(st, cols, i + 1, section)

\* lines 111-114: the loop over the categorical columns, from column i on;
\* mode()[0] of an empty mode raises KeyError
RECURSIVE fill_categorical(_, _, _, _)
fill_categorical(st, cols, i, section) ==
    IF i > Len(cols) \/ st.exc # "none" THEN st
    ELSE LET series == getitem(st.df, cols[i])
         IN  IF ~isnull_any(series) THEN fill_categorical(st, cols, i + 1, section)
             ELSE IF section.isNone THEN [st EXCEPT !.exc = "AttributeError"]
             ELSE IF dict_get(section, "categorical", NoneStr) = "mode"
             THEN IF mode(series) = <<>> THEN [st EXCEPT !.exc = "KeyError"]
                  ELSE fill_categorical(
                         [st EXCEPT !.df = setitem(st.df, cols[i], "object",
                                                   fillna(series, mode(series)[1]))],
                         cols, i + 1, section)
             ELSE fill_categorical(st, cols, i + 1, section)

\* the numeric columns always filled with their mean, whatever the section
_handle_missing_values_fixed_mean(df, info, section) ==
    fill_categorical(
        fill_numeric([df |-> df, exc |-> "none"], info.numeric_columns, 1,
                     PyDict([numeric |-> "mean"])),
        info.categorical_columns, 1, section)

_handle_missing_values(df, info, section) ==
    fill_categorical(
        fill_numeric([df |-> df, exc |-> "none"], info.numeric_columns, 1, section),
        info.categorical_columns, 1, section)

\* line 124, for every categorical column from column i on
RECURSIVE label_encode(_, _, _)
label_encode(df, cols, i) ==
    IF i > Len(cols) THEN df
    ELSE label_encode(setitem(df, cols[i], "int8", codes(getitem(df, cols[i]))),
                      cols, i + 1)

\* the indicator columns of one column: one per category, in sorted order,
\* named {column}_{value}; a missing cell is False in all of them
dummies(col) ==
    LET cats == categories(col.cells)
    IN  [j \in 1..Len(cats) |->
            Column(col.name \o "_" \o Text[cats[j].n], "bool",
                   [r \in 1..Len(col.cells) |-> Bool(col.cells[r] = cats[j])])]

RECURSIVE all_dummies(_, _, _)
all_dummies(df, cols, i) ==
    IF i > Len(cols) THEN <<>>
    ELSE dummies(df[ColIndex(df, cols[i])]) \o all_dummies(df, cols, i + 1)

\* the indicator columns put where the encoded column stood
RECURSIVE dummies_in_place(_, _, _)
dummies_in_place(df, cols, i) ==
    IF i > Len(df) THEN <<>>
    ELSE (IF IsIn(df[i].name, cols) THEN dummies(df[i]) ELSE <<df[i]>>)
         \o dummies_in_place(df, cols, i + 1)
get_dummies_in_place(df, cols) == dummies_in_place(df, cols, 1)

\* pd.get_dummies(df, columns=cols): the other columns in their order,
\* then the indicator columns of each encoded column
get_dummies(df, cols) ==
    SelectSeq(df, LAMBDA c : ~IsIn(c.name, cols)) \o all_dummies(df, cols, 1)

\* fresh: the stage bound preprocessed_data to a new DataFrame object
_encode_categorical(df, info, section) ==
    IF section.isNone THEN [df |-> df, exc |-> "AttributeError", fresh |-> FALSE]
    ELSE IF dict_get(section, "method", NoneStr) = "label"
    THEN [df |-> label_encode(df, info.categorical_columns, 1),
          exc |-> "none", fresh |-> FALSE]
    ELSE IF dict_get(section, "method", NoneStr) = "onehot"
    THEN [df |-> get_dummies(df, info.categorical_columns),
          exc |-> "none", fresh |-> TRUE]
    ELSE [df |-> df, exc |-> "none", fresh |-> FALSE]

\* (x - mean) / std, with std given by its square v
zscore(x, m, v) ==
    IF IsNull(x) \/ IsNull(m) \/ IsNull(v) THEN NaN
    ELSE LET dev == Sub(x, m)
             sq == Mul(dev, dev)
         IN  IF v.n = 0 THEN NaN       \* 0 / 0
             ELSE IF dev.n < 0 THEN Root(-(sq.n * v.d), sq.d * v.n)
             ELSE Root(sq.n * v.d, sq.d * v.n)

\* lines 136-138
standard_scale(cells) ==
    LET m == mean(cells)
        v == var(cells)
    IN  [i \in 1..Len(cells) |-> zscore(cells[i], m, v)]

\* x / max: scaling by the largest value only
max_abs_scale(cells) ==
    LET max_val == max(cells)
    IN  [i \in 1..Len(cells) |->
            IF IsNull(cells[i]) \/ IsNull(max_val) THEN NaN
            ELSE Div(cells[i], max_val)]

\* lines 141-143
minmax_scale(cells) ==
    LET min_val == min(cells)
        max_val == max(cells)
    IN  [i \in 1..Len(cells) |->
            IF IsNull(cells[i]) \/ IsNull(min_val) THEN NaN
            ELSE Div(Sub(cells[i], min_val), Sub(max_val, min_val))]

RECURSIVE scale_columns(_, _, _, _)
scale_columns(df, cols, i, method) ==
    IF i > Len(cols) THEN df
    ELSE LET series == getitem(df, cols[i])
             scaled == IF method = "standard" THEN standard_scale(series)
                       ELSE minmax_scale(series)
         IN  scale_columns(setitem(df, cols[i], "float64", scaled), cols, i + 1, method)

\* scaling every column whose dtype is numeric at the time the stage runs
_scale_numerical_by_dtype(df, info, section) ==
    IF section.isNone THEN [df |-> df, exc |-> "AttributeError"]
    ELSE IF dict_get(section, "method", NoneStr) \in {"standard", "minmax"}
    THEN [df |-> scale_columns(df, select_dtypes(df, np_number), 1,
                               dict_get(section, "method", NoneStr)),
          exc |-> "none"]
    ELSE [df |-> df, exc |-> "none"]

_scale_numerical(df, info, section) ==
    IF section.isNone THEN [df |-> df, exc |-> "AttributeError"]
    ELSE IF dict_get(section, "method", NoneStr) = "standard"
    THEN [df |-> scale_columns(df, info.numeric_columns, 1, "standard"), exc |-> "none"]
    ELSE IF dict_get(section, "method", NoneStr) = "minmax"
    THEN [df |-> scale_columns(df, info.numeric_columns, 1, "minmax"), exc |-> "none"]
    ELSE [df |-> df, exc |-> "none"]

_get_default_preprocessing_config ==
    PyDict([missing_values |-> PyDict([numeric |-> "mean", categorical |-> "mode"]),
            categorical_encoding |-> PyDict([method |-> "label"]),
            scaling |-> PyDict([method |-> "standard"])])

(***************************************************************************)
(* The inputs: what is on disk and the config the caller passes.           *)
(***************************************************************************)
Header == <<"A", "B">>

Numbers == {1, 2}
NumericCells == {NaN} \cup {Whole(i) : i \in Numbers}
TextCells == {NaN} \cup {Str(i) : i \in 1..Len(Text)}
BoolCells == {Bool(FALSE), Bool(TRUE)}

\* the columns of n cells a file can hold: numerals and empties, texts and
\* empties with at least one text, or True / False in every cell
FileColumns(n) ==
    [1..n -> NumericCells]
    \cup {c \in [1..n -> TextCells] : \E i \in 1..n : c[i].k = "str"}
    \cup [1..n -> BoolCells]

\* every table of at most Len(Header) columns, MaxRows rows and MaxCells
\* cells
Contents ==
    UNION {UNION {{[i \in 1..k |-> [name |-> Header[i], cells |-> cs[i]]] :
                        cs \in [1..k -> FileColumns(n)]} :
                  n \in {m \in 1..MaxRows : m * k <= MaxCells}} :
           k \in 1..Len(Header)}

Paths == {"data.csv", "data.xls", "broken.xlsx", "notes.txt"}

Reverse(seq) == [i \in 1..Len(seq) |-> seq[Len(seq) + 1 - i]]

\* what is stored under a path: the table on disk; the spreadsheet holds
\* its rows in the opposite order, followed by the table's first row once
\* more, and one file cannot be parsed
file(table, path) ==
    IF path = "broken.xlsx" THEN Malformed
    ELSE IF path = "data.xls"
    THEN [i \in 1..Len(table) |->
            [table[i] EXCEPT !.cells = Reverse(@) \o <<@[1]>>]]
    ELSE table

Without(f, key) == [k \in DOMAIN f \ {key} |-> f[k]]
With(f, key, v) == [k \in DOMAIN f |-> IF k = key THEN v ELSE f[k]]
Default == _get_default_preprocessing_config
Sections == {"missing_values", "categorical_encoding", "scaling"}

\* The configs the caller may pass: None; every combination of the
\* recognized methods; ...
FullConfigs ==
    {PyDict([missing_values |-> PyDict([numeric |-> n, categorical |-> "mode"]),
             categorical_encoding |-> PyDict([method |-> e]),
             scaling |-> PyDict([method |-> s])]) :
        n \in {"mean", "median"}, e \in {"label", "onehot"},
        s \in {"standard", "minmax"}}

\* ... the default config with one method name that is not recognized; ...
BogusConfigs ==
    {PyDict(With(Default.d, "missing_values",
                 PyDict(With(Default.d.missing_values.d, k, "bogus")))) :
        k \in {"numeric", "categorical"}}
    \cup {PyDict(With(Default.d, k, PyDict([method |-> "bogus"]))) :
            k \in {"categorical_encoding", "scaling"}}

\* ... the default config with one section or one key left out; ...
SparseConfigs ==
    {PyDict(Without(Default.d, k)) : k \in Sections}
    \cup {PyDict(With(Default.d, k, PyDict(<<>>))) : k \in Sections}
    \cup {PyDict(With(Default.d, "missing_values",
                      PyDict(Without(Default.d.missing_values.d, k)))) :
            k \in {"numeric", "categorical"}}

\* ... and the default config with None where a section should be.
IllTypedConfigs == {PyDict(With(Default.d, k, PyNone)) : k \in Sections}

Configs ==
    {PyNone} \cup FullConfigs \cup BogusConfigs \cup SparseConfigs \cup IllTypedConfigs

(***************************************************************************)
(* The history of the last call.                                           *)
(***************************************************************************)
NoRun == [op |-> "none", path |-> "", parsed |-> FALSE, caught |-> "none",
          stage |-> "none", input |-> Free, imputed |-> Free, encoded |-> Free,
          scaled |-> Free]

(***************************************************************************)
(* DataAgent.__init__                                                      *)
(***************************************************************************)
Init ==
    /\ heap = [r \in Refs |-> Free]
    /\ data = None
    /\ preprocessed_data = None
    /\ data_info = <<>>
    /\ disk \in Contents
    /\ source = ""
    /\ config \in Configs
    /\ ret = "None"
    /\ raised = "none"
    /\ log = "none"
    /\ run = NoRun

Live == {data, preprocessed_data} \ {None}

(***************************************************************************)
(* read_data(file_path)                                                    *)
(***************************************************************************)
\* lines 19-25: which reader the extension selects
reader(file_path) ==
    IF endswith(file_path, ".csv") THEN "read_csv"
    ELSE IF endswith(file_path, ".xlsx") \/ endswith(file_path, ".xls") THEN "read_excel"
    ELSE "none"

read_data(file_path) ==
    IF reader(file_path) = "none"
    THEN \* lines 23-25: nothing is read
         /\ log' = "Unsupported file format. Please use CSV or Excel files."
         /\ ret' = "False"
         /\ raised' = "none"
         /\ run' = [NoRun EXCEPT !.op = "read_data", !.path = file_path]
         /\ UNCHANGED <<heap, data, preprocessed_data, data_info, disk, source, config>>
    ELSE \E got \in {read_file(file(disk, file_path))} :
         /\ run' = [NoRun EXCEPT !.op = "read_data", !.path = file_path,
                                 !.parsed = TRUE, !.caught = got.exc]
         /\ raised' = "none"
         /\ IF got.exc # "none"
            THEN \* lines 29-31: the reader raised before self.data was bound
                 /\ log' = "Error reading file"
                 /\ ret' = "False"
                 /\ UNCHANGED <<heap, data, preprocessed_data, data_info, source>>
            ELSE \E after \in {LET obj == new_object(heap, Live, got.df)
                               IN  collect(obj.heap, obj.ref, preprocessed_data)} :
                 /\ heap' = after.heap
                 /\ data' = after.data
                 /\ preprocessed_data' = after.preprocessed_data
                 /\ data_info' = _analyze_data(after.heap[after.data])
                 /\ source' = file_path
                 /\ log' = "none"
                 /\ ret' = "True"
         /\ UNCHANGED <<disk, config>>

(***************************************************************************)
(* preprocess_data(config)                                                 *)
(***************************************************************************)
EmptyDict == PyDict(<<>>)

\* the stages in another order: scaling first, then imputation, then encoding
pipeline_scale_first(h, d, p, info, cfg) ==
    LET c == copy(h, {d, p} \ {None}, d)
        w == c.ref
        eff == IF cfg.isNone THEN _get_default_preprocessing_config ELSE cfg
        s1 == _scale_numerical(c.heap[w], info, dict_get(eff, "scaling", EmptyDict))
        s2 == _handle_missing_values(s1.df, info,
                                     dict_get(eff, "missing_values", EmptyDict))
        s3 == _encode_categorical(s2.df, info,
                                  dict_get(eff, "categorical_encoding", EmptyDict))
        start == [NoRun EXCEPT !.op = "preprocess_data", !.input = c.heap[w]]
    IN  IF s1.exc # "none"
        THEN [heap |-> c.heap, ref |-> w,
              run |-> [start EXCEPT !.caught = s1.exc, !.stage = "scale"]]
        ELSE IF s2.exc # "none"
        THEN [heap |-> [c.heap EXCEPT ![w] = s2.df], ref |-> w,
              run |-> [start EXCEPT !.caught = s2.exc, !.stage = "impute",
                                    !.scaled = s1.df]]
        ELSE IF s3.exc # "none"
        THEN [heap |-> [c.heap EXCEPT ![w] = s3.df], ref |-> w,
              run |-> [start EXCEPT !.caught = s3.exc, !.stage = "encode",
                                    !.scaled = s1.df, !.imputed = s2.df]]
        ELSE [heap |-> [c.heap EXCEPT ![w] = s3.df], ref |-> w,
              run |-> [start EXCEPT !.scaled = s1.df, !.imputed = s2.df,
                                    !.encoded = s3.df]]

\* lines 59-71 on the heap h: the copy, then the three stages, each
\* writing to the object preprocessed_data refers to; stops at the first
\* stage that raises
pipeline(h, d, p, info, cfg) ==
    LET c == copy(h, {d, p} \ {None}, d)
        w == c.ref
        eff == IF cfg.isNone THEN _get_default_preprocessing_config ELSE cfg
        s1 == _handle_missing_values(c.heap[w], info,
                                     dict_get(eff, "missing_values", EmptyDict))
        h1 == [c.heap EXCEPT ![w] = s1.df]
        s2 == _encode_categorical(s1.df, info,
                                  dict_get(eff, "categorical_encoding", EmptyDict))
        e2 == IF s2.fresh THEN new_object(h1, {d, w}, s2.df)
              ELSE [heap |-> [h1 EXCEPT ![w] = s2.df], ref |-> w]
        s3 == _scale_numerical(s2.df, info, dict_get(eff, "scaling", EmptyDict))
        h3 == [e2.heap EXCEPT ![e2.ref] = s3.df]
        start == [NoRun EXCEPT !.op = "preprocess_data", !.input = c.heap[w]]
    IN  IF s1.exc # "none"
        THEN [heap |-> h1, ref |-> w,
              run |-> [start EXCEPT !.caught = s1.exc, !.stage = "impute"]]
        ELSE IF s2.exc # "none"
        THEN [heap |-> e2.heap, ref |-> e2.ref,
              run |-> [start EXCEPT !.caught = s2.exc, !.stage = "encode",
                                    !.imputed = s1.df]]
        ELSE IF s3.exc # "none"
        THEN [heap |-> h3, ref |-> e2.ref,
              run |-> [start EXCEPT !.caught = s3.exc, !.stage = "scale",
                                    !.imputed = s1.df, !.encoded = s2.df]]
        ELSE [heap |-> h3, ref |-> e2.ref,
              run |-> [start EXCEPT !.imputed = s1.df, !.encoded = s2.df,
                                    !.scaled = s3.df]]

preprocess_data(cfg) ==
    IF data = None
    THEN /\ log' = "No data loaded. Please load data first."
         /\ ret' = "False"
         /\ raised' = "none"
         /\ run' = [NoRun EXCEPT !.op = "preprocess_data"]
         /\ UNCHANGED <<heap, data, preprocessed_data, data_info, disk, source, config>>
    ELSE \E out \in {pipeline(heap, data, preprocessed_data, data_info, cfg)} :
         \E after \in {collect(out.heap, data, out.ref)} :
            /\ heap' = after.heap
            /\ data' = after.data
            /\ preprocessed_data' = after.preprocessed_data
            /\ run' = out.run
            /\ log' = IF out.run.caught # "none"
                      THEN "Error during preprocessing" ELSE "none"
            /\ ret' = IF out.run.caught # "none" THEN "False" ELSE "True"
            /\ raised' = "none"
            /\ UNCHANGED <<data_info, disk, source, config>>

Next ==
    \/ \E file_path \in Paths : read_data(file_path)
    \/ preprocess_data(config)

Spec == Init /\ [][Next]_vars

(***************************************************************************)
(* Vocabulary of the properties.                                           *)
(***************************************************************************)
\* the error kinds of the specification's taxonomy
TypedErrors ==
    {"UnsupportedFormatError", "ParseError", "EmptyColumnError",
     "DegenerateColumnError", "UnknownConfigOptionError"}

\* the method the caller's config names for an option, after the defaults
\* of a None config; NoneStr when it names none
Requested(section, key) ==
    LET eff == IF config.isNone THEN Default ELSE config
    IN  IF section \in DOMAIN eff.d /\ ~eff.d[section].isNone
           /\ key \in DOMAIN eff.d[section].d
        THEN eff.d[section].d[key]
        ELSE NoneStr

\* the section of the config a stage of preprocess_data is handed
Section(name) ==
    dict_get(IF config.isNone THEN Default ELSE config, name, EmptyDict)

\* the last call was a preprocess_data that got to the pipeline
Preprocessed == run.op = "preprocess_data" /\ run.input # Free
\* ... and its imputation / encoding stage ran to its end
ImputeDone == Preprocessed /\ run.stage # "impute"
EncodeDone == ImputeDone /\ run.stage # "encode"
ScaleDone == EncodeDone /\ run.stage # "scale"

NumericColumns == {data_info.numeric_columns[i] : i \in 1..Len(data_info.numeric_columns)}
CategoricalColumns ==
    {data_info.categorical_columns[i] : i \in 1..Len(data_info.categorical_columns)}

Values(cells) == {cells[i] : i \in 1..Len(cells)} \ {NaN}
FirstAt(cells, v) == CHOOSE i \in 1..Len(cells) :
                        cells[i] = v /\ \A j \in 1..(i - 1) : cells[j] # v
MostFrequent(cells) ==
    {v \in Values(cells) : \A u \in Values(cells) : Count(cells, u) <= Count(cells, v)}
SortedRank(cells, v) == Cardinality({u \in Values(cells) : u.n < v.n})
FirstSeenRank(cells, v) ==
    Cardinality({u \in Values(cells) : FirstAt(cells, u) < FirstAt(cells, v)})

(***************************************************************************)
(* C1.  After any sequence of calls the raw table is exactly the table the *)
(* last successful read_data produced (and there is none before the first  *)
(* successful read_data): preprocessing never changes it.                  *)
(***************************************************************************)
C1_RawTableIsLastRead ==
    /\ data = None <=> source = ""
    /\ data # None => heap[data] = parse(file(disk, source))

\* a preprocess_data has succeeded and its result differs from the raw table
C1_Witness ==
    /\ run.op = "preprocess_data" /\ ret = "True"
    /\ heap[preprocessed_data] # heap[data]
    /\ heap[data] = parse(file(disk, source))

(***************************************************************************)
(* C2.  When a stage of preprocess_data fails, the working table is the    *)
(* output of the previous stage (the fresh copy, for imputation): nothing  *)
(* the failing stage did is left in it.                                    *)
(***************************************************************************)
C2_FailedStageLeavesPriorOutput ==
    (Preprocessed /\ run.stage # "none") =>
        heap[preprocessed_data] =
            CASE run.stage = "impute" -> run.input
              [] run.stage = "encode" -> run.imputed
              [] run.stage = "scale" -> run.encoded

\* the scaling stage failed after imputation and encoding had changed the table
C2_Witness ==
    /\ Preprocessed /\ run.stage = "scale" /\ ret = "False"
    /\ run.imputed # run.input /\ run.encoded # run.imputed
    /\ heap[preprocessed_data] = run.encoded

(***************************************************************************)
(* C3.  Every failure of read_data or of a stage of preprocess_data        *)
(* reaches the caller as one of the typed errors, and is not logged and    *)
(* turned into a return value.                                             *)
(***************************************************************************)
C3_FailuresAreTypedErrors ==
    ((run.op = "read_data" /\ ret = "False") \/ run.stage # "none") =>
        (raised \in TypedErrors /\ log = "none")

(***************************************************************************)
(* C4.  preprocess_data with the mean or median policy fails with          *)
(* EmptyColumnError when a numeric column has no value at all.             *)
(***************************************************************************)
C4_AllMissingColumnFails ==
    (/\ Preprocessed
     /\ Requested("missing_values", "numeric") \in {"mean", "median"}
     /\ \E c \in NumericColumns :
            \A i \in 1..len(run.input) : IsNull(getitem(run.input, c)[i])) =>
        (ret = "False" /\ raised = "EmptyColumnError")

(***************************************************************************)
(* C5.  Scaling (standard or minmax) a fully populated numeric column      *)
(* whose values are all equal fails with DegenerateColumnError.            *)
(***************************************************************************)
C5_ConstantColumnFails ==
    (/\ EncodeDone
     /\ Requested("scaling", "method") \in {"standard", "minmax"}
     /\ len(run.encoded) >= 2
     /\ \E c \in NumericColumns :
            LET cells == getitem(run.encoded, c)
            IN  ~isnull_any(cells) /\ \A i \in 1..Len(cells) : cells[i] = cells[1]) =>
        (ret = "False" /\ raised = "DegenerateColumnError")

(***************************************************************************)
(* C6.  preprocess_data with a config that names an unrecognized method    *)
(* fails with UnknownConfigOptionError.                                    *)
(***************************************************************************)
C6_UnknownOptionFails ==
    (Preprocessed /\ config \in BogusConfigs) =>
        (ret = "False" /\ raised = "UnknownConfigOptionError")

(***************************************************************************)
(* C7.  A read_data of a path with an unsupported extension fails with     *)
(* UnsupportedFormatError, parses nothing and leaves the loaded table and  *)
(* its profile as they were.                                               *)
(***************************************************************************)
C7_UnsupportedFormatError ==
    [][(run'.op = "read_data" /\ reader(run'.path) = "none") =>
            /\ raised' = "UnsupportedFormatError"
            /\ ~run'.parsed
            /\ UNCHANGED <<heap, data, data_info>>]_vars

(***************************************************************************)
(* C8.  Label encoding.  As claimed: every categorical column is replaced  *)
(* in place by codes 0..k-1, the code of a value being the rank of its     *)
(* first appearance from the top row down.                                 *)
(***************************************************************************)
LabelRun == EncodeDone /\ Requested("categorical_encoding", "method") = "label"

C8_CodesInFirstSeenOrder ==
    LabelRun =>
        /\ columns(run.encoded) = columns(run.imputed)
        /\ \A c \in CategoricalColumns :
              LET before == getitem(run.imputed, c)
                  after == getitem(run.encoded, c)
              IN  \A i \in 1..Len(before) :
                     ~IsNull(before[i]) =>
                        after[i] = Whole(FirstSeenRank(before, before[i]))

\* C8 as amended: the code of a value is its rank among the column's
\* distinct values in ascending (sorted) order, and a missing cell gets -1.
C8_CodesInSortedOrder ==
    LabelRun =>
        /\ columns(run.encoded) = columns(run.imputed)
        /\ \A c \in CategoricalColumns :
              LET before == getitem(run.imputed, c)
                  after == getitem(run.encoded, c)
              IN  \A i \in 1..Len(before) :
                     after[i] = IF IsNull(before[i]) THEN Whole(-1)
                                ELSE Whole(SortedRank(before, before[i]))

\* a column was label-encoded whose values do not first appear in sorted order
C8_Witness ==
    /\ LabelRun
    /\ \E c \in CategoricalColumns :
          LET before == getitem(run.imputed, c)
          IN  /\ \E i \in 1..Len(before) :
                    /\ ~IsNull(before[i])
                    /\ FirstSeenRank(before, before[i]) # SortedRank(before, before[i])
              /\ getitem(heap[preprocessed_data], c) # before

(***************************************************************************)
(* C9.  Mode imputation.  As claimed: every missing cell of a categorical  *)
(* column is filled with the column's most frequent value, and of several  *)
(* most frequent values the one that appears first in row order is taken.  *)
(***************************************************************************)
ModeRun == ImputeDone /\ Requested("missing_values", "categorical") = "mode"

C9_TieTakesFirstInRowOrder ==
    ModeRun =>
        \A c \in CategoricalColumns :
           LET before == getitem(run.input, c)
               after == getitem(run.imputed, c)
           IN  \A i \in 1..Len(before) :
                  IsNull(before[i]) =>
                     /\ after[i] \in MostFrequent(before)
                     /\ \A u \in MostFrequent(before) :
                           FirstAt(before, after[i]) <= FirstAt(before, u)

\* C9 as amended: of several most frequent values the one that comes first
\* in ascending (sorted) order is taken.
C9_TieTakesFirstInSortedOrder ==
    ModeRun =>
        \A c \in CategoricalColumns :
           LET before == getitem(run.input, c)
               after == getitem(run.imputed, c)
           IN  \A i \in 1..Len(before) :
                  IsNull(before[i]) =>
                     /\ after[i] \in MostFrequent(before)
                     /\ \A u \in MostFrequent(before) : after[i].n <= u.n

\* a missing cell was filled from a tie whose first value in row order is
\* not its first value in sorted order
C9_Witness ==
    /\ ModeRun
    /\ \E c \in CategoricalColumns :
          LET before == getitem(run.input, c)
              after == getitem(run.imputed, c)
          IN  /\ isnull_any(before) /\ ~isnull_any(after)
              /\ \E u, v \in MostFrequent(before) :
                    u.n < v.n /\ FirstAt(before, v) < FirstAt(before, u)

(***************************************************************************)
(* C10.  After the imputation stage with the numeric policy mean, a        *)
(* numeric column that had at least one value has no missing cell, and its *)
(* cells that were not missing keep their values.                          *)
(***************************************************************************)
MeanRun == ImputeDone /\ Requested("missing_values", "numeric") = "mean"

C10_MeanFillsEveryMissingCell ==
    MeanRun =>
        \A c \in NumericColumns :
           LET before == getitem(run.input, c)
               after == getitem(run.imputed, c)
           IN  Values(before) # {} =>
                  /\ ~isnull_any(after)
                  /\ \A i \in 1..Len(before) : ~IsNull(before[i]) => after[i] = before[i]

\* a numeric column with both a value and a missing cell went through mean
\* imputation
C10_Witness ==
    /\ MeanRun
    /\ \E c \in NumericColumns :
          LET before == getitem(run.input, c)
          IN  /\ isnull_any(before) /\ Values(before) # {}
              /\ ~isnull_any(getitem(run.imputed, c))

(***************************************************************************)
(* C11.  The imputation stage is idempotent: applied to a table it has     *)
(* already imputed, with the same missing_values config, it raises nothing *)
(* and changes no cell.                                                    *)
(***************************************************************************)
C11_ImputeIsIdempotent ==
    ImputeDone =>
        LET again == _handle_missing_values(run.imputed, data_info,
                                            Section("missing_values"))
        IN  again.exc = "none" /\ again.df = run.imputed

\* the imputation stage has filled a missing cell
C11_Witness ==
    /\ ImputeDone
    /\ \E c \in NumericColumns \cup CategoricalColumns :
          /\ isnull_any(getitem(run.input, c))
          /\ ~isnull_any(getitem(run.imputed, c))

OneHotRun == EncodeDone /\ Requested("categorical_encoding", "method") = "onehot"

C13_OneHotColumns ==
    OneHotRun =>
        LET kept == SelectSeq(run.imputed, LAMBDA c : c.name \notin CategoricalColumns)
            m == Len(kept)
            added == (m + 1)..Len(run.encoded)
        IN  /\ Len(run.encoded) >= m
            /\ SubSeq(run.encoded, 1, m) = kept
            /\ \A j \in added :
                  /\ run.encoded[j].dtype = "bool"
                  /\ \E c \in CategoricalColumns :
                        \E v \in Values(getitem(run.imputed, c)) :
                            run.encoded[j].name = c \o "_" \o Text[v.n]
            /\ \A c \in CategoricalColumns :
                  \A v \in Values(getitem(run.imputed, c)) :
                      \E j \in added :
                          /\ run.encoded[j].name = c \o "_" \o Text[v.n]
                          /\ \A k \in added :
                                run.encoded[k].name = run.encoded[j].name => k = j
                          /\ run.encoded[j].cells =
                                [r \in 1..len(run.imputed) |->
                                    Bool(getitem(run.imputed, c)[r] = v)]

\* a categorical column with two distinct values, standing before a column
\* that is not categorical, has been one-hot encoded
C13_Witness ==
    /\ OneHotRun
    /\ \E i, j \in 1..Len(run.imputed) :
          /\ i < j
          /\ run.imputed[i].name \in CategoricalColumns
          /\ Cardinality(Values(run.imputed[i].cells)) = 2
          /\ run.imputed[j].name \notin CategoricalColumns
    /\ Len(run.encoded) = 3

(***************************************************************************)
(* C14.  Every preprocess_data that gets to the pipeline works from the    *)
(* profile of the raw table and runs imputation on the copy of the raw     *)
(* table, then encoding on what imputation produced, then scaling on what  *)
(* encoding produced; a stage that raises ends the run, and the working    *)
(* table is what the last stage that ran left.                             *)
(***************************************************************************)
C14_StagesRunInOrder ==
    Preprocessed =>
        LET s1 == _handle_missing_values(run.input, data_info, Section("missing_values"))
            s2 == _encode_categorical(s1.df, data_info, Section("categorical_encoding"))
            s3 == _scale_numerical(s2.df, data_info, Section("scaling"))
            working == heap[preprocessed_data]
        IN  /\ data_info = _analyze_data(heap[data])
            /\ run.input = heap[data]
            /\ IF s1.exc # "none"
               THEN /\ run.stage = "impute" /\ working = s1.df
                    /\ run.imputed = Free /\ run.encoded = Free /\ run.scaled = Free
               ELSE /\ run.imputed = s1.df
                    /\ IF s2.exc # "none"
                       THEN /\ run.stage = "encode" /\ working = s2.df
                            /\ run.encoded = Free /\ run.scaled = Free
                       ELSE /\ run.encoded = s2.df
                            /\ IF s3.exc # "none"
                               THEN /\ run.stage = "scale" /\ working = s3.df
                                    /\ run.scaled = Free
                               ELSE /\ run.stage = "none" /\ working = s3.df
                                    /\ run.scaled = s3.df

\* a run in which each of the three stages changed the table it was given
C14_Witness ==
    /\ ScaleDone
    /\ run.imputed # run.input
    /\ run.encoded # run.imputed
    /\ run.scaled # run.encoded

(***************************************************************************)
(* C15.  The profile puts every column of the raw table in exactly one of  *)
(* numeric_columns and categorical_columns: in numeric_columns if and only *)
(* if its dtype is an integer or floating-point one, in                    *)
(* categorical_columns otherwise.                                          *)
(***************************************************************************)
C15_EveryColumnNumericOrCategorical ==
    data # None =>
        \A i \in 1..Len(heap[data]) :
            LET col == heap[data][i]
            IN  /\ col.name \in NumericColumns <=> col.dtype \in {"int64", "float64"}
                /\ col.name \in CategoricalColumns <=> col.name \notin NumericColumns

(***************************************************************************)
(* C16.  The profile of the raw table reports its number of rows as        *)
(* num_rows, its number of columns as num_columns and, for every column,   *)
(* the number of its missing cells.                                        *)
(***************************************************************************)
C16_ProfileCounts ==
    data # None =>
        LET T == heap[data]
        IN  /\ data_info.num_columns = Len(T)
            /\ DOMAIN data_info.missing_values = {T[i].name : i \in 1..Len(T)}
            /\ \A i \in 1..Len(T) :
                  /\ data_info.num_rows = Len(T[i].cells)
                  /\ data_info.missing_values[T[i].name] =
                        Cardinality({r \in 1..Len(T[i].cells) : T[i].cells[r] = NaN})

\* a table is loaded that has more rows than columns and a column with
\* both missing and present cells, more of them missing
C16_Witness ==
    /\ data # None
    /\ data_info.num_rows > data_info.num_columns
    /\ \E i \in 1..Len(heap[data]) :
          /\ data_info.missing_values[heap[data][i].name] = 2
          /\ data_info.num_rows = 3

(***************************************************************************)
(* C17.  Minmax scaling of a numeric column without a missing cell whose   *)
(* largest value differs from its smallest replaces each value x by        *)
(* (x - min) / (max - min); the scaled column lies within [0, 1] and       *)
(* holds both 0 and 1.                                                     *)
(***************************************************************************)
MinMaxRun == ScaleDone /\ Requested("scaling", "method") = "minmax"

C17_MinMaxRange ==
    MinMaxRun =>
        \A c \in NumericColumns :
            LET x == getitem(run.encoded, c)
                y == getitem(run.scaled, c)
                lo == CHOOSE v \in Values(x) : \A u \in Values(x) : ~Less(u, v)
                hi == CHOOSE v \in Values(x) : \A u \in Values(x) : ~Less(v, u)
            IN  ~isnull_any(x) /\ Cardinality(Values(x)) > 1 =>
                    /\ \A r \in 1..Len(x) :
                          /\ y[r] = Div(Sub(x[r], lo), Sub(hi, lo))
                          /\ ~Less(y[r], Whole(0)) /\ ~Less(Whole(1), y[r])
                    /\ \E r \in 1..Len(x) : y[r] = Whole(0)
                    /\ \E r \in 1..Len(x) : y[r] = Whole(1)

\* minmax scaling has run on a column holding three different values
C17_Witness ==
    /\ MinMaxRun
    /\ \E c \in NumericColumns :
          /\ ~isnull_any(getitem(run.encoded, c))
          /\ Cardinality(Values(getitem(run.encoded, c))) = 3
          /\ \E r \in 1..len(run.scaled) : getitem(run.scaled, c)[r] = Num(1, 2)

(***************************************************************************)
(* C18.  Every option the caller leaves unspecified takes its default      *)
(* (numeric mean, categorical mode, encoding label, scaling standard),     *)
(* whether no config is passed or the config passed omits a section or a   *)
(* key: the run succeeds and the working table is what the stages produce  *)
(* from the config completed with the defaults.                            *)
(***************************************************************************)
\* no section of the config is of the wrong type
WellTyped == config.isNone \/ \A k \in DOMAIN config.d : ~config.d[k].isNone

\* the section a stage is handed, its missing keys taken from the defaults
Completed(name) ==
    PyDict([k \in DOMAIN Default.d[name].d |->
                IF k \in DOMAIN Section(name).d THEN Section(name).d[k]
                ELSE Default.d[name].d[k]])

C18_OmittedOptionsTakeDefaults ==
    Preprocessed /\ WellTyped =>
        LET s1 == _handle_missing_values(run.input, data_info,
                                         Completed("missing_values"))
            s2 == _encode_categorical(s1.df, data_info,
                                      Completed("categorical_encoding"))
            s3 == _scale_numerical(s2.df, data_info, Completed("scaling"))
        IN  /\ ret = "True"
            /\ heap[preprocessed_data] = s3.df

(***************************************************************************)
(* C19.  data_info describes the current raw table and nothing else: it is *)
(* empty exactly while no read_data has succeeded, and from then on it is  *)
(* the profile of the table the last successful read_data loaded, whatever *)
(* failed reads and preprocess_data calls have happened since.             *)
(***************************************************************************)
\* info is the profile of the table T
Describes(info, T) ==
    LET names == {T[i].name : i \in 1..Len(T)}
        col(c) == T[ColIndex(T, c)]
        missing(cells) == Cardinality({r \in 1..Len(cells) : cells[r] = NaN})
    IN  /\ info.num_rows = Len(T[1].cells)
        /\ info.num_columns = Len(T)
        /\ info.column_types = [c \in names |-> col(c).dtype]
        /\ info.missing_values = [c \in names |-> missing(col(c).cells)]
        /\ info.numeric_columns =
              SelectSeq(columns(T), LAMBDA c : col(c).dtype \in {"int64", "float64"})
        /\ info.categorical_columns =
              SelectSeq(columns(T), LAMBDA c : col(c).dtype = "object")

C19_ProfileDescribesRawTable ==
    /\ data_info = <<>> <=> source = ""
    /\ data = None <=> source = ""
    /\ source # "" =>
          /\ heap[data] = parse(file(disk, source))
          /\ Describes(data_info, heap[data])

\* a read has failed after a one-hot preprocessing gave the working table
\* other columns than the raw table has
C19_Witness ==
    /\ run.op = "read_data" /\ ret = "False"
    /\ data # None /\ preprocessed_data # None
    /\ columns(heap[preprocessed_data]) # columns(heap[data])
    /\ data_info.num_columns = Len(heap[data])

(***************************************************************************)
(* C20.  preprocess_data starts from a copy of the raw table, never from   *)
(* an earlier working table: the table its stages were given first is the  *)
(* raw table, and calling it once more with the same config would leave    *)
(* the same working table and the same outcome.  Called while no table is  *)
(* loaded it returns False and preprocessed_data stays None.               *)
(***************************************************************************)
C20_PreprocessStartsFromRawTable ==
    /\ run.op = "preprocess_data" /\ data = None =>
          ret = "False" /\ preprocessed_data = None
    /\ Preprocessed =>
          /\ run.input = heap[data]
          /\ LET again == pipeline(heap, data, preprocessed_data, data_info, config)
             IN  /\ again.heap[again.ref] = heap[preprocessed_data]
                 /\ again.run = run

\* a preprocess_data has succeeded and left a working table that label
\* encoding, applied to it once more, would change
C20_Witness ==
    /\ Preprocessed /\ ret = "True"
    /\ Requested("categorical_encoding", "method") = "label"
    /\ heap[preprocessed_data] = run.scaled
    /\ label_encode(run.scaled, data_info.categorical_columns, 1) # run.scaled

====
